---- MODULE Spec2Model ----
(***************************************************************************)
(* A model of the bead box subsystem: the archive directory of a box, its  *)
(* SQLite side-index (bead/box_index.py), the filesystem query paths       *)
(* (bead/box.py, bead/box_rawfs.py), the query builder and multi-box       *)
(* search (bead/box.py) and the freshness coloring of the provenance web   *)
(* (bead_cli/web/sketch.py).  Clusters, their heads and the topological    *)
(* sort follow the written specification of the web (section 4.6).         *)
(*                                                                         *)
(* Not modelled: the inputs table of the index and the bead_id column      *)
(* (no property below observes them), sqlite errors while inserting a row, *)
(* and a box directory that does not exist.  Every index operation runs on *)
(* a freshly constructed BoxIndex, as the command line does, so the cached *)
(* _is_available flag always reflects the current index file.              *)
(***************************************************************************)
EXTENDS Integers, Sequences, FiniteSets, TLC

VARIABLES
    dir,        \* the box directory: path -> content of the file, or Absent
    index,      \* the file .index.sqlite: [state, rows, schema]
    lastOp,     \* the operation that ran last and its outcome
    base,       \* TRUE when the index matched the directory and only files were added/deleted since
    conds,      \* FileBasedSearch.conditions of the query that ran last
    found,      \* the beads the last query returned, per resolver
    boxes,      \* MultiBoxSearch.boxes: per box, the archives of its directory or the error of its scan
    uniq,       \* MultiBoxSearch._unique_filter
    mres,       \* outcome of the last MultiBoxSearch terminal selector
    beads,      \* the beads of a Sketch, with their freshness
    wres        \* the last operation on the Sketch and what color_beads returned

vars == <<dir, index, lastOp, base, conds, found, boxes, uniq, mres, beads, wres>>

boxVars == <<dir, index, lastOp, base>>
queryVars == <<conds, found>>
multiVars == <<boxes, uniq, mres>>
webVars == <<beads, wres>>

(***************************************************************************)
(* Bounds                                                                  *)
(***************************************************************************)
MaxFiles == 2       \* files present in the box directory at one time
MaxConds == 2       \* conditions appended to one query
MaxBoxes == 2       \* boxes of one multi-box search
MaxBoxBeads == 2    \* archives in one box of a multi-box search
MaxInputs == 1      \* inputs of one bead of the web
MaxOrdinal == 2     \* magnitude of the argument of newer(n) and older(n)

(***************************************************************************)
(* Strings.  A string is a sequence of one-character strings; Python and   *)
(* SQLite (BINARY collation) both compare text by code point.              *)
(***************************************************************************)
Ord ==
    [c \in {"+", "-", "0", "1", "2", "3", "4", "5", "6", "7", "8", "9", ":", "T"} |->
        CASE c = "+" -> 43 [] c = "-" -> 45
          [] c = "0" -> 48 [] c = "1" -> 49 [] c = "2" -> 50 [] c = "3" -> 51
          [] c = "4" -> 52 [] c = "5" -> 53 [] c = "6" -> 54 [] c = "7" -> 55
          [] c = "8" -> 56 [] c = "9" -> 57 [] c = ":" -> 58 [] c = "T" -> 84]

Digit == <<"0", "1", "2", "3", "4", "5", "6", "7", "8", "9">>

DigitChar(n) == Digit[n + 1]

DigitVal(c) == Ord[c] - Ord["0"]

RECURSIVE StrLess(_, _)
StrLess(s, t) ==
    IF t = <<>> THEN FALSE
    ELSE IF s = <<>> THEN TRUE
    ELSE IF Ord[Head(s)] # Ord[Head(t)] THEN Ord[Head(s)] < Ord[Head(t)]
    ELSE StrLess(Tail(s), Tail(t))

StrLessEq(s, t) == s = t \/ StrLess(s, t)

IsPrefix(p, s) == Len(p) <= Len(s) /\ SubSeq(s, 1, Len(p)) = p

(***************************************************************************)
(* Timestamps.  A datetime is a wall-clock reading (year digit y, rest of  *)
(* the date-time digit d) with a UTC offset o; its instant is the reading  *)
(* less the offset.  The freeze_time string has the fixed-width layout of  *)
(* YYYYMMDDTHHMMSSffffff+HHMM, shortened to one digit per field.           *)
(***************************************************************************)
Sign(o) == IF o < 0 THEN "-" ELSE "+"

Abs(n) == IF n < 0 THEN 0 - n ELSE n

Instant(t) == (t.y * 10 + t.d) - t.o

timestamp_str(t) ==
    <<DigitChar(t.y), DigitChar(t.d), "T", Sign(t.o), DigitChar(Abs(t.o)), "0">>

time_from_timestamp(s) ==
    [y |-> DigitVal(s[1]), d |-> DigitVal(s[2]),
     o |-> IF s[4] = "-" THEN 0 - DigitVal(s[5]) ELSE DigitVal(s[5])]

\* datetime.isoformat(): a dash after the year, a colon inside the offset
isoformat(t) ==
    <<DigitChar(t.y), "-", DigitChar(t.d), "T", Sign(t.o), DigitChar(Abs(t.o)), ":", "0">>

\* value.isoformat().replace('+00:00', '+0000')
IsoValue(t) ==
    LET s == isoformat(t)
    IN IF SubSeq(s, 5, 8) = <<"+", "0", ":", "0">>
       THEN SubSeq(s, 1, 4) \o <<"+", "0", "0">>
       ELSE s

T1 == [y |-> 0, d |-> 1, o |-> 0]
T2 == [y |-> 0, d |-> 3, o |-> 1]
T3 == [y |-> 0, d |-> 2, o |-> 0]
T4 == [y |-> 1, d |-> 0, o |-> 0]
T5 == [y |-> 0, d |-> 3, o |-> 2]

(***************************************************************************)
(* Files of the box directory                                              *)
(***************************************************************************)
Absent == [what |-> "absent"]
Junk == [what |-> "junk"]

\* the metadata of a bead archive; ok: validate() passes
BeadContent(cid, kind, t, ok) ==
    [what |-> "bead", content_id |-> cid, kind |-> kind,
     freeze_time_str |-> timestamp_str(t), ok |-> ok]

X == BeadContent(<<"x", "1">>, "k1", T1, TRUE)
Y == BeadContent(<<"y", "1">>, "k1", T2, TRUE)
Z == BeadContent(<<"x", "2">>, "k2", T3, TRUE)
V == BeadContent(<<"v", "1">>, "k1", T5, TRUE)

NoStamp == <<>>

\* <name>_<stamp>.zip, <name>.zip when the stamp is empty; zip: the extension is .zip
PathOf(name, stamp, zip) == [name |-> name, stamp |-> stamp, zip |-> zip]

NoPath == PathOf("", NoStamp, FALSE)

Names == {"a", "b"}

BoxPaths == {PathOf(n, s, TRUE) : n \in Names, s \in {NoStamp, timestamp_str(T1)}}

BoxContents == {X, Y, Junk}

\* bead_name_from_file_path: the file name less its extension and _<timestamp> suffix
bead_name_from_file_path(p) == p.name

Present(d) == {p \in DOMAIN d : d[p] # Absent}

\* box_directory.glob('*.zip')
GlobZip(d) == {p \in Present(d) : p.zip}

\* ZipArchive(path) raises InvalidArchive unless the file holds bead metadata
IsArchive(d, p) == p \in Present(d) /\ d[p].what = "bead"

\* ZipArchive(path) and archive.validate() both pass
IsValid(d, p) == IsArchive(d, p) /\ d[p].ok

Perms(S) == {f \in [1..Cardinality(S) -> S] : \A i, j \in 1..Cardinality(S) : f[i] = f[j] => i = j}

(***************************************************************************)
(* The index                                                               *)
(***************************************************************************)
SCHEMA_VERSION == 1

\* no file .index.sqlite; schema: the versions held by table schema_info
NoIndex == [state |-> "absent", rows |-> {}, schema |-> {}]

\* the index file of the box, .index.sqlite: no *.zip path
index_path == PathOf(".index", NoStamp, FALSE)

unlink_archives(d, p) == [q \in DOMAIN d |-> IF q = p \/ q.zip THEN Absent ELSE d[q]]

\* index_path.unlink(): the archive files that remain
unlink(d, p) == [q \in DOMAIN d |-> IF q = p THEN Absent ELSE d[q]]

Row(d, p) ==
    [name |-> bead_name_from_file_path(p), content_id |-> d[p].content_id,
     kind |-> d[p].kind, freeze_time_str |-> d[p].freeze_time_str, file_path |-> p]

\* a plain INSERT that keeps the rows the new one collides with
InsertKeepingOld(rows, r) == rows \cup {r}

\* INSERT OR REPLACE under UNIQUE(file_path) and UNIQUE(name, content_id)
InsertOrReplace(rows, r) ==
    {o \in rows : ~ (o.file_path = r.file_path
                     \/ (o.name = r.name /\ o.content_id = r.content_id))} \cup {r}

\* _add_archive_to_index, InvalidArchive caught by the caller
AddArchiveToIndex(rows, d, p) ==
    IF IsValid(d, p) THEN InsertOrReplace(rows, Row(d, p)) ELSE rows

RECURSIVE AddAll(_, _, _)
AddAll(rows, d, order) ==
    IF order = <<>> THEN rows
    ELSE AddAll(AddArchiveToIndex(rows, d, Head(order)), d, Tail(order))

\* is_available: an existing index opens and answers a query, a missing one can be created
is_available(ix) == ix.state # "corrupt"

\* sqlite3.connect on a missing file: an empty database
EmptyDb == [state |-> "ok", rows |-> {}, schema |-> {}]

\* _create_schema on the open connection: CREATE ... IF NOT EXISTS, then a plain
\* INSERT INTO schema_info (version), whose column is the primary key
create_schema(db) ==
    IF SCHEMA_VERSION \in db.schema
    THEN [err |-> TRUE, db |-> db]
    ELSE [err |-> FALSE, db |-> [db EXCEPT !.schema = db.schema \cup {SCHEMA_VERSION}]]

\* _get_connection: a missing database is created together with its schema
get_connection(ix) ==
    IF ix.state = "absent" THEN create_schema(EmptyDb).db ELSE ix

IndexedPaths(ix) == {r.file_path : r \in ix.rows}

ValidZip(d) == {p \in GlobZip(d) : IsValid(d, p)}

Matches(ix, d) ==
    /\ ix.state = "ok"
    /\ IndexedPaths(ix) = ValidZip(d)
    /\ \A r \in ix.rows : r = Row(d, r.file_path)

Op(op, ok, p, q, after) == [op |-> op, ok |-> ok, p |-> p, q |-> q, after |-> after]

(***************************************************************************)
(* Queries.  A condition is <<tag, value>>; the value of a time condition  *)
(* is a datetime (the search builder parses strings with                   *)
(* time_from_timestamp before it appends the condition).                   *)
(***************************************************************************)
TimeTags == {"AT_TIME", "NEWER_THAN", "OLDER_THAN", "AT_OR_NEWER", "AT_OR_OLDER"}

\* the metadata view of a bead, of an archive file and of an index row alike
Bead(name, cid, kind, fts) ==
    [name |-> name, content_id |-> cid, kind |-> kind, freeze_time_str |-> fts]

ArchiveBead(d, p) ==
    Bead(bead_name_from_file_path(p), d[p].content_id, d[p].kind, d[p].freeze_time_str)

RowBead(r) == Bead(r.name, r.content_id, r.kind, r.freeze_time_str)

\* bead.freeze_time
freeze_time(b) == time_from_timestamp(b.freeze_time_str)

\* the comparisons shared by box._CHECKERS and box_rawfs._CHECKERS
CheckCommon(tag, v, b) ==
    CASE tag = "BEAD_NAME" -> b.name = v
      [] tag = "KIND" -> b.kind = v
      [] tag = "AT_TIME" -> Instant(freeze_time(b)) = Instant(v)
      [] tag = "NEWER_THAN" -> Instant(freeze_time(b)) > Instant(v)
      [] tag = "OLDER_THAN" -> Instant(freeze_time(b)) < Instant(v)
      [] tag = "AT_OR_NEWER" -> Instant(freeze_time(b)) >= Instant(v)
      [] tag = "AT_OR_OLDER" -> Instant(freeze_time(b)) <= Instant(v)

\* box._CHECKERS: CONTENT_ID is has_content_prefix
BoxCheck(tag, v, b) ==
    IF tag = "CONTENT_ID" THEN IsPrefix(v, b.content_id) ELSE CheckCommon(tag, v, b)

\* box_rawfs._CHECKERS: CONTENT_ID is equality
RawfsCheck(tag, v, b) ==
    IF tag = "CONTENT_ID" THEN b.content_id = v ELSE CheckCommon(tag, v, b)

BoxMatchFirstOnly(cs, b) == cs = <<>> \/ BoxCheck(cs[1][1], cs[1][2], b)

\* compile_conditions (box.py): every check accepts the bead
BoxMatch(cs, b) == \A i \in 1..Len(cs) : BoxCheck(cs[i][1], cs[i][2], b)

\* compile_conditions (box_rawfs.py)
RawfsMatch(cs, b) == \A i \in 1..Len(cs) : RawfsCheck(cs[i][1], cs[i][2], b)

BeadNames(cs) == {cs[i][2] : i \in {j \in 1..Len(cs) : cs[j][1] = "BEAD_NAME"}}

\* glob(<name>_????????T????????????[-+]????.zip)
GlobName(d, name) ==
    {p \in Present(d) : /\ p.zip
                        /\ p.name = name
                        /\ Len(p.stamp) = 6
                        /\ p.stamp[3] = "T"
                        /\ p.stamp[4] \in {"+", "-"}}

\* Box._beads: two names give nothing; one name directs the glob; else glob('*')
BoxPathsFor(d, cs) ==
    IF Cardinality(BeadNames(cs)) > 1 THEN {}
    ELSE IF Cardinality(BeadNames(cs)) = 1
         THEN GlobName(d, CHOOSE n \in BeadNames(cs) : TRUE)
         ELSE Present(d)

archives_from_raising(d, paths) ==
    [raised |-> \E p \in paths : ~ IsArchive(d, p),
     archives |-> {p \in paths : IsArchive(d, p)}]

\* Box._archives_from: ZipArchive(path) of every path, InvalidArchive passed over
archives_from(d, paths) ==
    [raised |-> FALSE, archives |-> {p \in paths : IsArchive(d, p)}]

\* Box._beads with _archives_from: InvalidArchive files are skipped
BoxBeads(d, cs) ==
    {ArchiveBead(d, p) : p \in {q \in archives_from(d, BoxPathsFor(d, cs)).archives :
                                   BoxMatch(cs, ArchiveBead(d, q))}}

\* whether the enumeration of Box._beads ends with an exception
BoxRaises(d, cs) == archives_from(d, BoxPathsFor(d, cs)).raised

\* RawFilesystemResolver.get_beads: as Box._beads, but glob('*.zip') without a name
RawfsPathsFor(d, cs) ==
    IF Cardinality(BeadNames(cs)) > 1 THEN {}
    ELSE IF Cardinality(BeadNames(cs)) = 1
         THEN GlobName(d, CHOOSE n \in BeadNames(cs) : TRUE)
         ELSE GlobZip(d)

get_beads(d, cs) ==
    {ArchiveBead(d, p) : p \in {q \in RawfsPathsFor(d, cs) : IsArchive(d, q) /\ RawfsMatch(cs, ArchiveBead(d, q))}}

\* BoxIndex.compile_conditions: one SQL comparison per condition; a time value
\* is rendered with isoformat() and compared with the freeze_time_str column
SqlCheck(tag, v, r) ==
    CASE tag = "BEAD_NAME" -> r.name = v
      [] tag = "KIND" -> r.kind = v
      [] tag = "CONTENT_ID" -> r.content_id = v
      [] tag = "AT_TIME" -> r.freeze_time_str = IsoValue(v)
      [] tag = "NEWER_THAN" -> StrLess(IsoValue(v), r.freeze_time_str)
      [] tag = "OLDER_THAN" -> StrLess(r.freeze_time_str, IsoValue(v))
      [] tag = "AT_OR_NEWER" -> StrLessEq(IsoValue(v), r.freeze_time_str)
      [] tag = "AT_OR_OLDER" -> StrLessEq(r.freeze_time_str, IsoValue(v))

SqlWhere(cs, r) == \A i \in 1..Len(cs) : SqlCheck(cs[i][1], cs[i][2], r)

\* BoxIndex.query: the rows the WHERE clause selects (as a set)
QueryRows(ix, cs) == {r \in get_connection(ix).rows : SqlWhere(cs, r)}

query(ix, cs) == {RowBead(r) : r \in QueryRows(ix, cs)}

\* whether BoxIndex.query runs its SELECT on the database: always when the
\* index is available, there is no test of the names before conn.execute
QueryExecutes(ix, cs) == is_available(ix)

\* ORDER BY freeze_time_str: the orders in which query may return the selected
\* rows, ascending by the text of the column
QueryOrder(ix, cs) ==
    {seq \in Perms(QueryRows(ix, cs)) :
        \A i, j \in 1..Len(seq) :
            i < j => StrLessEq(seq[i].freeze_time_str, seq[j].freeze_time_str)}

\* BoxIndex.get_file_path: the path of the row, None when there is no row
NoneValue == [what |-> "None"]

get_file_path(ix, name, cid) ==
    LET hits == {r \in get_connection(ix).rows : r.name = name /\ r.content_id = cid}
    IN IF ~ is_available(ix) \/ hits = {} THEN NoneValue
       ELSE (CHOOSE r \in hits : TRUE).file_path

\* the LookupError a resolver raises
LookupErrorValue == [what |-> "LookupError"]

\* RawFilesystemResolver.get_file_path on a fresh resolver: the results it can
\* have, the first archive of glob(name + '_<timestamp>.zip') with that name and
\* content_id, LookupError when the loop finds none
rawfs_get_file_path(d, name, cid) ==
    LET hits == {p \in GlobName(d, name) :
                    /\ IsArchive(d, p)
                    /\ ArchiveBead(d, p).name = name
                    /\ ArchiveBead(d, p).content_id = cid}
    IN IF hits = {} THEN {LookupErrorValue} ELSE hits

(***************************************************************************)
(* Out-of-band changes of the directory                                    *)
(***************************************************************************)
AddFile(p, c) ==
    /\ dir[p] = Absent
    /\ Cardinality(Present(dir)) < MaxFiles
    /\ dir' = [dir EXCEPT ![p] = c]
    /\ lastOp' = Op("add", TRUE, NoPath, NoPath, "")
    /\ base' = (base /\ c.what = "bead" /\ c.ok)
    /\ UNCHANGED index

DeleteFile(p) ==
    /\ dir[p] # Absent
    /\ dir' = [dir EXCEPT ![p] = Absent]
    /\ lastOp' = Op("delete", TRUE, NoPath, NoPath, "")
    /\ UNCHANGED <<index, base>>

\* os.rename(old, new)
RenameFile(p, q) ==
    /\ dir[p] # Absent
    /\ p # q
    /\ dir[q] = Absent
    /\ dir' = [dir EXCEPT ![p] = Absent, ![q] = dir[p]]
    /\ lastOp' = Op("rename", IsValid(dir, p) /\ Row(dir, p) \in index.rows, p, q, "")
    /\ base' = (base /\ IsValid(dir, p))
    /\ UNCHANGED index

CorruptIndex ==
    /\ index.state = "ok"
    /\ index' = [state |-> "corrupt", rows |-> {}, schema |-> {}]
    /\ lastOp' = Op("corrupt", TRUE, NoPath, NoPath, "")
    /\ base' = FALSE
    /\ UNCHANGED dir

RemoveIndexFile ==
    /\ index.state = "corrupt"
    /\ index' = NoIndex
    /\ lastOp' = Op("rmindex", TRUE, NoPath, NoPath, "")
    /\ base' = FALSE
    /\ UNCHANGED dir

(***************************************************************************)
(* Box.store                                                               *)
(***************************************************************************)
\* packs the workspace into <directory>/<name>_<freeze_time>.zip
Store(name, c) ==
    LET p == PathOf(name, c.freeze_time_str, TRUE)
    IN /\ p \in DOMAIN dir
       /\ c.what = "bead" /\ c.ok
       /\ dir[p] # Absent \/ Cardinality(Present(dir)) < MaxFiles
       /\ dir' = [dir EXCEPT ![p] = c]
       /\ lastOp' = Op("store", TRUE, p, NoPath, "")
       /\ base' = (base /\ dir[p] = Absent)
       /\ UNCHANGED index

(***************************************************************************)
(* BoxIndex operations                                                     *)
(***************************************************************************)
\* rebuild: RuntimeError when unavailable; else unlink the index, call
\* _create_schema (on the connection _get_connection opens for the now missing
\* file), index every *.zip in glob order and commit.  Any exception: unlink the
\* partial database and re-raise.
RebuildResult(ix, d, order) ==
    IF ~ is_available(ix) THEN [ok |-> FALSE, index |-> ix]
    ELSE LET s == create_schema(get_connection(NoIndex))
         IN IF s.err THEN [ok |-> FALSE, index |-> NoIndex]
            ELSE [ok |-> TRUE, index |-> [s.db EXCEPT !.rows = AddAll({}, d, order)]]

Rebuild ==
    \E order \in Perms(GlobZip(dir)) :
        LET r == RebuildResult(index, dir, order)
        IN /\ index' = r.index
           /\ lastOp' = Op("rebuild", r.ok, NoPath, NoPath,
                           IF is_available(index) THEN "available" ELSE "unavailable")
           /\ base' = Matches(r.index, dir)
           /\ dir' = (IF is_available(index) THEN unlink(dir, index_path) ELSE dir)

\* sync: index the *.zip files whose path is not indexed yet
NewFiles(ix, d) == {p \in GlobZip(d) : p \notin IndexedPaths(ix)}

SyncResult(ix, d, order) ==
    IF ~ is_available(ix) THEN ix
    ELSE [get_connection(ix) EXCEPT !.rows = AddAll(ix.rows, d, order)]

Sync ==
    \E order \in Perms(NewFiles(index, dir)) :
        /\ index' = SyncResult(index, dir, order)
        /\ lastOp' = Op("sync", is_available(index), lastOp.p, lastOp.q,
                        IF lastOp.ok THEN lastOp.op ELSE "")
        /\ base' = (base \/ Matches(index', dir))
        /\ UNCHANGED dir

\* the exception a call of rebuild() ends with: RuntimeError when the index is
\* not available, otherwise the sqlite3 error of the store, re-raised as it is
RebuildRaises(ix) ==
    IF ~ is_available(ix) THEN "RuntimeError"
    ELSE IF create_schema(get_connection(NoIndex)).err THEN "sqlite3.IntegrityError"
    ELSE "none"

\* the progress records a consumer of rebuild() receives: rebuild has no yield
\* statement and returns nothing, the per-file errors go to the log only
RebuildProgress(ix, d) == <<>>

\* the rows of the database file after a run that inserted inside one
\* "with conn:" block: written by the single conn.commit() that follows the
\* loop, rolled back when the block is left before it
Committed(before, inserted, reachedCommit) ==
    IF reachedCommit THEN inserted ELSE before

\* sync cut off after the first k of its new files (the process is interrupted
\* or killed inside the loop): the loop has no commit of its own
SyncInterruptedResult(ix, d, order, k) ==
    [get_connection(ix) EXCEPT
        !.rows = Committed(ix.rows, AddAll(ix.rows, d, SubSeq(order, 1, k)), FALSE)]

SyncInterrupted ==
    /\ is_available(index)
    /\ \E order \in Perms(NewFiles(index, dir)) :
          \E k \in 1..Len(order) :
              /\ index' = SyncInterruptedResult(index, dir, order, k)
              /\ lastOp' = Op("sync_interrupted", TRUE, order[1], order[k], "")
              /\ base' = (base \/ Matches(index', dir))
              /\ UNCHANGED dir

\* a first use of the index through _get_connection(): a missing file is
\* created with its schema, an existing one is validated and left as it is
Connect ==
    /\ is_available(index)
    /\ index' = get_connection(index)
    /\ lastOp' = Op("connect", TRUE, NoPath, NoPath, "")
    /\ base' = (base \/ Matches(index', dir))
    /\ UNCHANGED dir

\* _create_schema(): it takes the connection, which creates the schema of a
\* missing file, and then runs the CREATE ... IF NOT EXISTS statements and the
\* plain INSERT INTO schema_info again; the failed call leaves the file as the
\* connection made it
CreateSchemaResult(ix) == create_schema(get_connection(ix))

CreateSchema ==
    /\ is_available(index)
    /\ LET r == CreateSchemaResult(index)
       IN /\ index' = r.db
          /\ lastOp' = Op("create_schema", ~ r.err, NoPath, NoPath, "")
          /\ base' = (base \/ Matches(r.db, dir))
    /\ UNCHANGED dir

\* add_bead: index one archive, every exception swallowed
AddBeadResult(ix, d, p) ==
    IF ~ is_available(ix) THEN ix
    ELSE [get_connection(ix) EXCEPT !.rows = AddArchiveToIndex(ix.rows, d, p)]

AddBead(p) ==
    /\ index' = AddBeadResult(index, dir, p)
    /\ lastOp' = Op("add_bead", is_available(index), p, NoPath, "")
    /\ base' = Matches(index', dir)
    /\ UNCHANGED dir

\* remove_bead: DELETE FROM beads WHERE file_path = ?
RemoveBeadResult(ix, p) ==
    IF ~ is_available(ix) THEN ix
    ELSE [get_connection(ix) EXCEPT !.rows = {r \in ix.rows : r.file_path # p}]

RemoveBead(p) ==
    /\ index' = RemoveBeadResult(index, p)
    /\ lastOp' = Op("remove_bead", is_available(index), p, NoPath, "")
    /\ base' = Matches(index', dir)
    /\ UNCHANGED dir

(***************************************************************************)
(* Specification of the box directory and its index                        *)
(***************************************************************************)
Idle ==
    /\ conds = <<>> /\ found = [index |-> {}, rawfs |-> {}, box |-> {}]
    /\ boxes = <<>> /\ uniq = FALSE /\ mres = [op |-> "none"]
    /\ beads = <<>> /\ wres = [op |-> "none"]

Init ==
    /\ dir = [p \in BoxPaths |-> Absent]
    /\ index = NoIndex
    /\ lastOp = Op("init", TRUE, NoPath, NoPath, "")
    /\ base = FALSE
    /\ Idle

Next ==
    \/ \E p \in BoxPaths, c \in BoxContents : AddFile(p, c) /\ UNCHANGED <<queryVars, multiVars, webVars>>
    \/ \E p \in BoxPaths : DeleteFile(p) /\ UNCHANGED <<queryVars, multiVars, webVars>>
    \/ \E p, q \in BoxPaths : RenameFile(p, q) /\ UNCHANGED <<queryVars, multiVars, webVars>>
    \/ CorruptIndex /\ UNCHANGED <<queryVars, multiVars, webVars>>
    \/ RemoveIndexFile /\ UNCHANGED <<queryVars, multiVars, webVars>>
    \/ \E n \in Names : Store(n, X) /\ UNCHANGED <<queryVars, multiVars, webVars>>
    \/ Rebuild /\ UNCHANGED <<queryVars, multiVars, webVars>>
    \/ Sync /\ UNCHANGED <<queryVars, multiVars, webVars>>
    \/ SyncInterrupted /\ UNCHANGED <<queryVars, multiVars, webVars>>
    \/ Connect /\ UNCHANGED <<queryVars, multiVars, webVars>>
    \/ CreateSchema /\ UNCHANGED <<queryVars, multiVars, webVars>>
    \/ \E p \in BoxPaths : AddBead(p) /\ UNCHANGED <<queryVars, multiVars, webVars>>
    \/ \E p \in BoxPaths : RemoveBead(p) /\ UNCHANGED <<queryVars, multiVars, webVars>>

Spec == Init /\ [][Next]_vars

(***************************************************************************)
(* Specification of queries: a directory and a condition list are drawn,   *)
(* sync() indexes the directory, search() asks every resolver.             *)
(***************************************************************************)
QueryPaths ==
    {PathOf("a", timestamp_str(T1), TRUE), PathOf("a", NoStamp, TRUE),
     PathOf("b", timestamp_str(T1), TRUE), PathOf("b", NoStamp, FALSE)}

QueryContents == {X, Y, Z, V, Junk}

QueryConds ==
    {<<"BEAD_NAME", n>> : n \in Names}
    \cup {<<"KIND", "k1">>}
    \cup {<<"CONTENT_ID", c>> : c \in {<<"x", "1">>, <<"x">>}}
    \cup {<<t, T3>> : t \in TimeTags}
    \cup {<<"AT_TIME", T2>>}

CondLists == UNION {[1..n -> QueryConds] : n \in 0..MaxConds}

Dirs(paths, contents) ==
    {d \in [paths -> contents \cup {Absent}] : Cardinality(Present(d)) <= MaxFiles}

\* FileBasedSearch.all(), served by the index, by RawFilesystemResolver and by Box._beads
Search ==
    /\ lastOp.op # "search"
    /\ found' = [index |-> IF is_available(index) THEN query(index, conds) ELSE {},
                 rawfs |-> get_beads(dir, conds),
                 box |-> BoxBeads(dir, conds)]
    /\ index' = IF is_available(index) THEN get_connection(index) ELSE index
    /\ lastOp' = Op("search", is_available(index), NoPath, NoPath, "")
    /\ UNCHANGED <<dir, base, conds>>

InitQuery ==
    /\ dir \in Dirs(QueryPaths, QueryContents)
    /\ index = NoIndex
    /\ lastOp = Op("init", TRUE, NoPath, NoPath, "")
    /\ base = FALSE
    /\ conds \in CondLists
    /\ found = [index |-> {}, rawfs |-> {}, box |-> {}]
    /\ boxes = <<>> /\ uniq = FALSE /\ mres = [op |-> "none"]
    /\ beads = <<>> /\ wres = [op |-> "none"]

NextQuery ==
    \/ Sync /\ UNCHANGED <<queryVars, multiVars, webVars>>
    \/ Search /\ UNCHANGED <<multiVars, webVars>>

SpecQuery == InitQuery /\ [][NextQuery]_vars

(***************************************************************************)
(* Multi-box search.  A box is the list of archives its directory walk     *)
(* yields (in glob order) or the error its scan raises; MultiBoxSearch     *)
(* hands its conditions to Box._beads of every box.                        *)
(***************************************************************************)
M1 == Bead("a", <<"x", "1">>, "k1", timestamp_str(T1))
M2 == Bead("b", <<"y", "1">>, "k1", timestamp_str(T2))
M3 == Bead("a", <<"x", "2">>, "k2", timestamp_str(T4))

MultiBeads == {M1, M2, M3}

ScanErrors == {"InvalidArchive", "IOError", "OSError"}

BoxOf(err, bs) == [err |-> err, beads |-> bs]

BoxValues ==
    {BoxOf("none", bs) : bs \in UNION {[1..n -> MultiBeads] : n \in 0..MaxBoxBeads}}
    \cup {BoxOf(e, <<>>) : e \in ScanErrors}

MultiCondLists ==
    {<<>>, << <<"KIND", "k1">> >>,
     << <<"KIND", "k1">>, <<"AT_OR_OLDER", T3>> >>,
     << <<"KIND", "k1">>, <<"AT_OR_OLDER", T1>> >>}

\* list(box._beads(conditions)) for a box whose scan does not raise
BoxYield(box, cs) ==
    IF Cardinality(BeadNames(cs)) > 1 THEN <<>>
    ELSE SelectSeq(box.beads, LAMBDA b : BoxMatch(cs, b))

UniqueFromNothingSeen(bs, seen) == bs

RECURSIVE UniqueFrom(_, _)
UniqueFrom(bs, seen) ==
    IF bs = <<>> THEN <<>>
    ELSE IF Head(bs).content_id \in seen THEN UniqueFrom(Tail(bs), seen)
    ELSE <<Head(bs)>> \o UniqueFrom(Tail(bs), seen \cup {Head(bs).content_id})

apply_unique_filter_keeping_last(u, bs) ==
    LET rv(q) == [i \in 1..Len(q) |-> q[Len(q) + 1 - i]]
    IN IF u THEN rv(UniqueFrom(rv(bs), {})) ELSE bs

\* _apply_unique_filter: keep the first bead of every content_id
apply_unique_filter(u, bs) == IF u THEN UniqueFrom(bs, {}) ELSE bs

Outcome(op, what, bead, box, consulted) ==
    [op |-> op, what |-> what, bead |-> bead, box |-> box, consulted |-> consulted]

NoBead == Bead("", <<>>, "", <<>>)

FirstCatchesInvalidArchiveOnly(err) == err = "InvalidArchive"

\* the except clause of MultiBoxSearch.first
FirstCatches(err) == err \in {"InvalidArchive", "IOError", "OSError"}

\* MultiBoxSearch.first, from box i on
RECURSIVE FirstFrom(_, _, _, _)
FirstFrom(bxs, cs, u, i) ==
    IF i > Len(bxs) THEN Outcome("first", "LookupError", NoBead, 0, 1..Len(bxs))
    ELSE IF bxs[i].err # "none"
         THEN IF FirstCatches(bxs[i].err) THEN FirstFrom(bxs, cs, u, i + 1)
              ELSE Outcome("first", bxs[i].err, NoBead, i, 1..i)
         ELSE LET filtered == apply_unique_filter(u, BoxYield(bxs[i], cs))
              IN IF filtered # <<>> THEN Outcome("first", "bead", filtered[1], i, 1..i)
                 ELSE FirstFrom(bxs, cs, u, i + 1)

\* MultiBoxSearch._get_beads: the boxes' yields concatenated, then the unique
\* filter; the error of a box's scan propagates
RECURSIVE Concat(_, _, _)
Concat(bxs, cs, i) ==
    IF i > Len(bxs) THEN <<>> ELSE BoxYield(bxs[i], cs) \o Concat(bxs, cs, i + 1)

Raising(bxs) == {i \in 1..Len(bxs) : bxs[i].err # "none"}

MultiGetBeads(bxs, cs, u) == apply_unique_filter(u, Concat(bxs, cs, 1))

FirstOfList(bs) == bs[1]

\* max(beads, key=freeze_time): the first bead no other exceeds
MaxByTime(bs) ==
    bs[CHOOSE i \in 1..Len(bs) :
          /\ \A j \in 1..Len(bs) : Instant(freeze_time(bs[j])) <= Instant(freeze_time(bs[i]))
          /\ \A j \in 1..(i - 1) : Instant(freeze_time(bs[j])) < Instant(freeze_time(bs[i]))]

\* MultiBoxSearch.newest
NewestOf(bxs, cs, u) ==
    IF Raising(bxs) # {}
    THEN LET i == CHOOSE k \in Raising(bxs) : \A l \in Raising(bxs) : k <= l
         IN Outcome("newest", bxs[i].err, NoBead, i, 1..i)
    ELSE LET bs == MultiGetBeads(bxs, cs, u)
         IN IF bs = <<>> THEN Outcome("newest", "LookupError", NoBead, 0, 1..Len(bxs))
            ELSE Outcome("newest", "bead", MaxByTime(bs), 0, 1..Len(bxs))

First ==
    /\ mres.op = "none"
    /\ mres' = FirstFrom(boxes, conds, uniq, 1)
    /\ UNCHANGED <<boxes, uniq, conds>>

Newest ==
    /\ mres.op = "none"
    /\ mres' = NewestOf(boxes, conds, uniq)
    /\ UNCHANGED <<boxes, uniq, conds>>

\* MultiBoxSearch.unique (FileBasedSearch.unique is the same statement)
Unique ==
    /\ mres.op = "none"
    /\ uniq' = TRUE
    /\ UNCHANGED <<boxes, mres, conds>>

InitMulti ==
    /\ dir = [p \in BoxPaths |-> Absent]
    /\ index = NoIndex
    /\ lastOp = Op("init", TRUE, NoPath, NoPath, "")
    /\ base = FALSE
    /\ found = [index |-> {}, rawfs |-> {}, box |-> {}]
    /\ conds \in MultiCondLists
    /\ boxes \in UNION {[1..n -> BoxValues] : n \in 0..MaxBoxes}
    /\ uniq = FALSE
    /\ mres = [op |-> "none"]
    /\ beads = <<>> /\ wres = [op |-> "none"]

NextMulti ==
    \/ First /\ UNCHANGED <<boxVars, found, webVars>>
    \/ Newest /\ UNCHANGED <<boxVars, found, webVars>>
    \/ Unique /\ UNCHANGED <<boxVars, found, webVars>>

SpecMulti == InitMulti /\ [][NextMulti]_vars

(***************************************************************************)
(* The list selectors of a search: all(), newer(n), older(n).              *)
(* FileBasedSearch runs the same statements over its one box.              *)
(***************************************************************************)
Ordinals == (0 - MaxOrdinal)..MaxOrdinal

SelectCondLists == {<<>>, << <<"KIND", "k1">> >>}

ListOutcome(op, what, list) == [op |-> op, what |-> what, list |-> list]

OrdinalOutcome(op, n, what, bead) == [op |-> op, n |-> n, what |-> what, bead |-> bead]

\* the error of the first box whose scan raises: it leaves _get_beads
FirstError(bxs) ==
    bxs[CHOOSE k \in Raising(bxs) : \A l \in Raising(bxs) : k <= l].err

\* sorted(beads, key=freeze_time): stable, so b goes behind the beads that are
\* not after it
InsertAscending(sorted, b) ==
    LET keep == Cardinality({i \in 1..Len(sorted) :
                    Instant(freeze_time(sorted[i])) <= Instant(freeze_time(b))})
    IN SubSeq(sorted, 1, keep) \o <<b>> \o SubSeq(sorted, keep + 1, Len(sorted))

RECURSIVE SortedAscending(_)
SortedAscending(bs) ==
    IF bs = <<>> THEN <<>>
    ELSE InsertAscending(SortedAscending(SubSeq(bs, 1, Len(bs) - 1)), bs[Len(bs)])

\* sorted(beads, key=freeze_time, reverse=True): stable as well
InsertDescending(sorted, b) ==
    LET keep == Cardinality({i \in 1..Len(sorted) :
                    Instant(freeze_time(sorted[i])) >= Instant(freeze_time(b))})
    IN SubSeq(sorted, 1, keep) \o <<b>> \o SubSeq(sorted, keep + 1, Len(sorted))

RECURSIVE SortedDescending(_)
SortedDescending(bs) ==
    IF bs = <<>> THEN <<>>
    ELSE InsertDescending(SortedDescending(SubSeq(bs, 1, Len(bs) - 1)), bs[Len(bs)])

\* sorted_beads[n] behind the guard n >= len(sorted_beads): a negative n counts
\* from the end of the list, and is an IndexError beyond its start
ElementAt(op, sorted, n) ==
    IF sorted = <<>> THEN OrdinalOutcome(op, n, "LookupError", NoBead)
    ELSE IF n >= Len(sorted) THEN OrdinalOutcome(op, n, "LookupError", NoBead)
    ELSE IF n >= 0 THEN OrdinalOutcome(op, n, "bead", sorted[n + 1])
    ELSE IF Len(sorted) + n >= 0 THEN OrdinalOutcome(op, n, "bead", sorted[Len(sorted) + n + 1])
    ELSE OrdinalOutcome(op, n, "IndexError", NoBead)

\* MultiBoxSearch.all
All ==
    /\ mres.op = "none"
    /\ mres' = IF Raising(boxes) # {} THEN ListOutcome("all", FirstError(boxes), <<>>)
               ELSE ListOutcome("all", "list", MultiGetBeads(boxes, conds, uniq))
    /\ UNCHANGED <<boxes, uniq, conds>>

\* MultiBoxSearch.newer
Newer(n) ==
    /\ mres.op = "none"
    /\ mres' = IF Raising(boxes) # {} THEN OrdinalOutcome("newer", n, FirstError(boxes), NoBead)
               ELSE ElementAt("newer", SortedAscending(MultiGetBeads(boxes, conds, uniq)), n)
    /\ UNCHANGED <<boxes, uniq, conds>>

\* MultiBoxSearch.older
Older(n) ==
    /\ mres.op = "none"
    /\ mres' = IF Raising(boxes) # {} THEN OrdinalOutcome("older", n, FirstError(boxes), NoBead)
               ELSE ElementAt("older", SortedDescending(MultiGetBeads(boxes, conds, uniq)), n)
    /\ UNCHANGED <<boxes, uniq, conds>>

InitSelect ==
    /\ dir = [p \in BoxPaths |-> Absent]
    /\ index = NoIndex
    /\ lastOp = Op("init", TRUE, NoPath, NoPath, "")
    /\ base = FALSE
    /\ found = [index |-> {}, rawfs |-> {}, box |-> {}]
    /\ conds \in SelectCondLists
    /\ boxes \in UNION {[1..n -> BoxValues] : n \in 0..MaxBoxes}
    /\ uniq = FALSE
    /\ mres = [op |-> "none"]
    /\ beads = <<>> /\ wres = [op |-> "none"]

NextSelect ==
    \/ Unique /\ UNCHANGED <<boxVars, found, webVars>>
    \/ All /\ UNCHANGED <<boxVars, found, webVars>>
    \/ \E n \in Ordinals : Newer(n) /\ UNCHANGED <<boxVars, found, webVars>>
    \/ \E n \in Ordinals : Older(n) /\ UNCHANGED <<boxVars, found, webVars>>

SpecSelect == InitSelect /\ [][NextSelect]_vars

(***************************************************************************)
(* The web: beads with their inputs, clusters by name, freshness coloring. *)
(* beads maps every bead identity to its place in the Sketch: "real" (a    *)
(* loaded bead), "phantom" (synthesized for an input that no loaded bead   *)
(* satisfies) or "absent".                                                 *)
(***************************************************************************)
PHANTOM == "PHANTOM"
SUPERSEDED == "SUPERSEDED"
UP_TO_DATE == "UP_TO_DATE"
OUT_OF_DATE == "OUT_OF_DATE"

WebIds == {"a1", "a2", "b1", "c1"}

Dummy ==
    [a1 |-> Bead("a", <<"a", "1">>, "k1", timestamp_str(T1)),
     a2 |-> Bead("a", <<"a", "2">>, "k1", timestamp_str(T4)),
     b1 |-> Bead("b", <<"b", "1">>, "k1", timestamp_str(T2)),
     c1 |-> Bead("c", <<"c", "1">>, "k1", timestamp_str(T3))]

SinkId == "*"

\* the beads of the Sketch
SketchBeads(bs) == {i \in WebIds : bs[i].state # "absent"}

\* generate_input_edges: one edge <<src, dest>> per input of a loaded bead
SketchEdges(bs) ==
    UNION {{<<src, dest>> : src \in bs[dest].inputs} : dest \in {i \in WebIds : bs[i].state = "real"}}

\* Sketch.from_beads: the loaded beads in their default freshness, and a
\* phantom for every input no loaded bead satisfies
from_beads(loaded, inputs) ==
    [i \in WebIds |->
        IF i \in loaded THEN [state |-> "real", inputs |-> inputs[i], freshness |-> SUPERSEDED]
        ELSE IF \E j \in loaded : i \in inputs[j]
             THEN [state |-> "phantom", inputs |-> {}, freshness |-> PHANTOM]
             ELSE [state |-> "absent", inputs |-> {}, freshness |-> ""]]

set_freshness_unguarded(cur, new) == new

\* Dummy.set_freshness
set_freshness(cur, new) == IF cur # PHANTOM THEN new ELSE cur

\* create_cluster_index: the beads of one name
ClusterNames(bs) == {Dummy[i].name : i \in SketchBeads(bs)}

Cluster(bs, name) == {i \in SketchBeads(bs) : Dummy[i].name = name}

\* Cluster.head: the bead of maximum freeze_time, ties by content_id
ClusterHead(bs, name) ==
    LET members == Cluster(bs, name)
    IN CHOOSE h \in members :
           \A m \in members :
               \/ m = h
               \/ Instant(freeze_time(Dummy[m])) < Instant(freeze_time(Dummy[h]))
               \/ /\ Instant(freeze_time(Dummy[m])) = Instant(freeze_time(Dummy[h]))
                  /\ StrLess(Dummy[m].content_id, Dummy[h].content_id)

Heads(bs) == {ClusterHead(bs, n) : n \in ClusterNames(bs)}

heads_of_keeping_all(bs) == [beads |-> SketchBeads(bs), edges |-> SketchEdges(bs)]

\* heads_of: the cluster heads, the edges into them, and those edges' sources
heads_of(bs) ==
    LET heads == Heads(bs)
        head_edges == {e \in SketchEdges(bs) : e[2] \in heads}
    IN [beads |-> heads \cup {e[1] : e \in head_edges}, edges |-> head_edges]

add_final_sink_edges_only(sk) ==
    [beads |-> sk.beads, edges |-> sk.edges \cup {<<b, SinkId>> : b \in sk.beads}]

\* add_final_sink_to: a new node with an edge from every bead
add_final_sink_to(sk) ==
    [beads |-> sk.beads \cup {SinkId}, edges |-> sk.edges \cup {<<b, SinkId>> : b \in sk.beads}]

\* toposort: the nodes of the edges, every source before its destinations;
\* no order exists when the edges form a cycle
RECURSIVE toposort(_, _)
toposort(edges, done) ==
    LET nodes == {e[1] : e \in edges} \cup {e[2] : e \in edges}
        placed == {done[k] : k \in 1..Len(done)}
        ready == {n \in nodes \ placed : \A e \in edges : e[2] = n => e[1] \in placed}
    IN IF nodes \subseteq placed THEN [ok |-> TRUE, order |-> done]
       ELSE IF ready = {} THEN [ok |-> FALSE, order |-> done]
       ELSE toposort(edges, Append(done, CHOOSE n \in ready : TRUE))

\* Cluster.reset_freshness for every cluster: SUPERSEDED for every bead, then
\* UP_TO_DATE for the head, both through set_freshness
reset_freshness(bs) ==
    LET heads == Heads(bs)
    IN [i \in WebIds |->
           IF bs[i].state = "absent" THEN ""
           ELSE IF i \in heads
                THEN set_freshness(set_freshness(bs[i].freshness, SUPERSEDED), UP_TO_DATE)
                ELSE set_freshness(bs[i].freshness, SUPERSEDED)]

HasSupersededInput(f, edges, h) == \E e \in edges : e[2] = h /\ f[e[1]] = SUPERSEDED

\* any(e.src.freshness is not UP_TO_DATE for e in edges_by_dest[cluster_head.ref])
HasStaleInput(f, edges, h) == \E e \in edges : e[2] = h /\ f[e[1]] # UP_TO_DATE

DowngradeToSuperseded(f, edges, h) ==
    IF f[h] = UP_TO_DATE /\ HasStaleInput(f, edges, h)
    THEN [f EXCEPT ![h] = set_freshness(f[h], SUPERSEDED)]
    ELSE f

\* one round of the loop: an UP_TO_DATE bead with a stale input becomes OUT_OF_DATE
DowngradeStep(f, edges, h) ==
    IF f[h] = UP_TO_DATE /\ HasStaleInput(f, edges, h)
    THEN [f EXCEPT ![h] = set_freshness(f[h], OUT_OF_DATE)]
    ELSE f

\* the loop of color_beads over head_eval_order
RECURSIVE Downgrade(_, _, _)
Downgrade(f, edges, order) ==
    IF order = <<>> THEN f
    ELSE Downgrade(DowngradeStep(f, edges, Head(order)), edges, Tail(order))

\* color_beads
ColorResult(bs) ==
    LET heads == add_final_sink_to(heads_of(bs))
        sorted == toposort(heads.edges, <<>>)
    IN IF ~ sorted.ok THEN [what |-> "cycle", order |-> <<>>, ret |-> FALSE, f |-> <<>>]
       ELSE IF sorted.order = <<>>
            THEN [what |-> "IndexError", order |-> <<>>, ret |-> FALSE, f |-> <<>>]
       ELSE LET reset == reset_freshness(bs)
                start == [i \in WebIds \cup {SinkId} |->
                             IF i = SinkId THEN UP_TO_DATE ELSE reset[i]]
                f == Downgrade(start, heads.edges, sorted.order)
            IN [what |-> "done", order |-> sorted.order, ret |-> f[SinkId] = UP_TO_DATE, f |-> f]

ColorBeads ==
    LET r == ColorResult(beads)
    IN /\ wres' = [op |-> "color", what |-> r.what, order |-> r.order, ret |-> r.ret]
       /\ beads' = IF r.what = "done"
                   THEN [i \in WebIds |-> [beads[i] EXCEPT !.freshness = r.f[i]]]
                   ELSE beads

\* Dummy.set_freshness on a bead of the Sketch.  PHANTOM is passed to phantoms
\* only: a loaded bead never receives it (phantoms come from phantom_from_input)
SetFreshness(i, new) ==
    /\ i \in SketchBeads(beads)
    /\ new = PHANTOM => beads[i].state = "phantom"
    /\ beads' = [beads EXCEPT ![i].freshness = set_freshness(beads[i].freshness, new)]
    /\ wres' = [op |-> "set", what |-> "", order |-> <<>>, ret |-> FALSE]

\* set_sources: the body is "raise NotImplementedError", no Sketch is made
set_sources(bs, names) == [what |-> "NotImplementedError", kept |-> {}]

\* set_sinks: the body is "raise NotImplementedError", no Sketch is made
set_sinks(bs, names) == [what |-> "NotImplementedError", kept |-> {}]

SetSources(names) ==
    /\ wres' = [op |-> "set_sources", what |-> set_sources(beads, names).what,
                order |-> <<>>, ret |-> FALSE]
    /\ beads' = IF set_sources(beads, names).what = "done"
                THEN [i \in WebIds |->
                         IF i \in set_sources(beads, names).kept THEN beads[i]
                         ELSE [state |-> "absent", inputs |-> {}, freshness |-> ""]]
                ELSE beads

SetSinks(names) ==
    /\ wres' = [op |-> "set_sinks", what |-> set_sinks(beads, names).what,
                order |-> <<>>, ret |-> FALSE]
    /\ beads' = IF set_sinks(beads, names).what = "done"
                THEN [i \in WebIds |->
                         IF i \in set_sinks(beads, names).kept THEN beads[i]
                         ELSE [state |-> "absent", inputs |-> {}, freshness |-> ""]]
                ELSE beads

WebInputs == [WebIds -> {s \in SUBSET WebIds : Cardinality(s) <= MaxInputs}]

InitWeb ==
    /\ dir = [p \in BoxPaths |-> Absent]
    /\ index = NoIndex
    /\ lastOp = Op("init", TRUE, NoPath, NoPath, "")
    /\ base = FALSE
    /\ conds = <<>> /\ found = [index |-> {}, rawfs |-> {}, box |-> {}]
    /\ boxes = <<>> /\ uniq = FALSE /\ mres = [op |-> "none"]
    /\ \E loaded \in SUBSET WebIds : \E inputs \in WebInputs :
          /\ \A i \in WebIds : i \notin inputs[i] /\ (i \notin loaded => inputs[i] = {})
          /\ beads = from_beads(loaded, inputs)
    /\ wres = [op |-> "none", what |-> "", order |-> <<>>, ret |-> FALSE]

NextWeb ==
    \/ ColorBeads /\ UNCHANGED <<boxVars, queryVars, multiVars>>
    \/ \E i \in WebIds : \E new \in {PHANTOM, SUPERSEDED, UP_TO_DATE, OUT_OF_DATE} :
          SetFreshness(i, new) /\ UNCHANGED <<boxVars, queryVars, multiVars>>

SpecWeb == InitWeb /\ [][NextWeb]_vars

(***************************************************************************)
(* Specification of the filters of a loaded web                            *)
(***************************************************************************)
\* reverse: every edge turned around
reverse(edges) == {<<e[2], e[1]>> : e \in edges}

\* the work list of closure: a ref is taken off it and the destinations of its
\* edges that were not seen before are put on it
RECURSIVE closure_loop(_, _, _)
closure_loop(todo, seen, edges) ==
    IF todo = {} THEN seen
    ELSE LET r == CHOOSE x \in todo : TRUE
             next == {e[2] : e \in {d \in edges : d[1] = r}} \ seen
         IN closure_loop((todo \ {r}) \cup next, seen \cup next, edges)

closure_direct(roots, edges) ==
    roots \cup {e[2] : e \in {d \in edges : d[1] \in roots}}

\* closure(roots, edges_by_src): the refs reached from the roots
closure(roots, edges) == closure_loop(roots, roots, edges)

Closure(roots, rev) ==
    /\ wres' = [op |-> "closure", what |-> "done", order |-> <<>>, ret |-> rev,
                roots |-> roots,
                refs |-> closure(roots, IF rev THEN reverse(SketchEdges(beads))
                                               ELSE SketchEdges(beads))]
    /\ UNCHANGED beads

NextFilter ==
    \/ \E names \in SUBSET ClusterNames(beads) :
          SetSources(names) /\ UNCHANGED <<boxVars, queryVars, multiVars>>
    \/ \E names \in SUBSET ClusterNames(beads) :
          SetSinks(names) /\ UNCHANGED <<boxVars, queryVars, multiVars>>
    \/ \E roots \in SUBSET SketchBeads(beads) : \E rev \in BOOLEAN :
          Closure(roots, rev) /\ UNCHANGED <<boxVars, queryVars, multiVars>>

SpecFilter == InitWeb /\ [][NextFilter]_vars

(***************************************************************************)
(* Properties of the box directory and its index (Spec)                    *)
(***************************************************************************)
DescribesFiles(ix, d) ==
    /\ ix.state = "ok"
    /\ IndexedPaths(ix) = ValidZip(d)
    /\ \A r \in ix.rows : r = Row(d, r.file_path)

\* C1: a completed sync that starts from an index matching the directory, after
\* archive files were deleted and valid archives added out-of-band, leaves the
\* indexed file_path values equal to the valid *.zip archives of the directory.
C1_SyncReconciles ==
    (lastOp.op = "sync" /\ lastOp.ok /\ base) => IndexedPaths(index) = ValidZip(dir)

\* C4: no two index entries share (name, content_id) and no two share file_path,
\* after any sequence of rebuild, sync and single-archive indexing.
C4_IndexUnique ==
    \A r1, r2 \in index.rows :
        (r1.file_path = r2.file_path
         \/ (r1.name = r2.name /\ r1.content_id = r2.content_id)) => r1 = r2

\* two valid archive files of the directory carry the same (name, content_id),
\* and an indexing run over them has left an entry
C4_Witness ==
    /\ lastOp.op \in {"sync", "add_bead"} /\ lastOp.ok
    /\ index.rows # {}
    /\ \E p, q \in ValidZip(dir) :
          /\ p # q
          /\ bead_name_from_file_path(p) = bead_name_from_file_path(q)
          /\ dir[p].content_id = dir[q].content_id

\* C5: rebuild() on an available index, whatever the index held before, completes
\* and leaves exactly one entry per valid *.zip archive and no other entry.
C5_RebuildEquivalence ==
    (lastOp.op = "rebuild" /\ lastOp.after = "available") =>
        (lastOp.ok /\ DescribesFiles(index, dir))

\* C6: a sync() run directly after a completed sync(), the directory unchanged,
\* leaves the index contents unchanged.
C6_SyncIdempotent ==
    [][(lastOp.op = "sync" /\ lastOp.ok /\ lastOp'.op = "sync") => index' = index]_vars

\* C7: after store(workspace, freeze_time), with no sync or rebuild in between,
\* a query returns a bead with the workspace's name and that freeze_time, from
\* the filesystem walk and from the index alike.
StoredIn(bs) ==
    \E b \in bs : b.name = lastOp.p.name /\ b.freeze_time_str = lastOp.p.stamp

C7_StoreThenQuery ==
    lastOp.op = "store" =>
        /\ StoredIn(BoxBeads(dir, <<>>))
        /\ StoredIn(get_beads(dir, <<>>))
        /\ is_available(index) => StoredIn(query(index, <<>>))

\* C8: after the archive of an indexed bead was renamed to another bead name and
\* sync() has run, the query by its content_id finds a bead, and every bead found
\* resolves to a file of the directory; one of them to the new path.
C8_ContentIdRediscovery ==
    (lastOp.op = "sync" /\ lastOp.ok /\ lastOp.after = "rename") =>
        LET hits == query(index, << <<"CONTENT_ID", dir[lastOp.q].content_id>> >>)
        IN /\ hits # {}
           /\ \A b \in hits : get_file_path(index, b.name, b.content_id) \in Present(dir)
           /\ \E b \in hits : get_file_path(index, b.name, b.content_id) = lastOp.q

(***************************************************************************)
(* Properties of queries (SpecQuery)                                       *)
(***************************************************************************)
\* C2: for any box contents and any conjunction of predicates, search().all()
\* served by an up-to-date index returns the same set of beads as the filesystem
\* resolver walking the same directory.
C2_IndexEquivalence ==
    (lastOp.op = "search" /\ DescribesFiles(index, dir)) => found.index = found.rawfs

(***************************************************************************)
(* Properties of the multi-box search (SpecMulti)                          *)
(***************************************************************************)
Yielding(bxs, cs) ==
    {i \in 1..Len(bxs) : bxs[i].err = "none" /\ BoxYield(bxs[i], cs) # <<>>}

\* C9: first() returns the first match of the lowest-indexed box that yields a
\* match, having consulted exactly the boxes up to that one; a box whose scan
\* raises InvalidArchive, IOError or OSError is skipped; LookupError is raised
\* exactly when no box yields a match.
C9_FirstFailover ==
    mres.op = "first" =>
        IF Yielding(boxes, conds) = {}
        THEN mres.what = "LookupError"
        ELSE LET j == CHOOSE i \in Yielding(boxes, conds) :
                          \A k \in Yielding(boxes, conds) : i <= k
             IN /\ mres.what = "bead"
                /\ mres.box = j
                /\ mres.bead = BoxYield(boxes[j], conds)[1]
                /\ mres.consulted = 1..j

C9_Witness ==
    /\ mres.op = "first" /\ mres.what = "bead" /\ mres.box = 2
    /\ boxes[1].err \in ScanErrors

\* C10: by_kind(k).at_or_older(t).newest() over several boxes returns a bead of
\* kind k frozen at or before t that no such bead of any box exceeds in freeze
\* time, whatever its name and its box; it raises LookupError only when no such
\* bead exists, and returns a bead or raises LookupError whenever every box can
\* be scanned.
Candidates(bxs, k, t) ==
    {b \in UNION {{bxs[i].beads[n] : n \in 1..Len(bxs[i].beads)} : i \in 1..Len(bxs)} :
        b.kind = k /\ Instant(freeze_time(b)) <= Instant(t)}

C10_UpdateByKind ==
    (/\ mres.op = "newest"
     /\ Len(conds) = 2 /\ conds[1][1] = "KIND" /\ conds[2][1] = "AT_OR_OLDER") =>
        LET cands == Candidates(boxes, conds[1][2], conds[2][2])
        IN /\ mres.what = "bead" =>
                /\ mres.bead \in cands
                /\ \A c \in cands : Instant(freeze_time(c)) <= Instant(freeze_time(mres.bead))
           /\ mres.what = "LookupError" => cands = {}
           /\ Raising(boxes) = {} => mres.what \in {"bead", "LookupError"}

C10_Witness ==
    /\ mres.op = "newest" /\ mres.what = "bead" /\ mres.bead = M2
    /\ Len(boxes) = 2
    /\ boxes[1] = BoxOf("none", <<M1>>)
    /\ boxes[2] = BoxOf("none", <<M3, M2>>)

(***************************************************************************)
(* Properties of the web (SpecWeb)                                         *)
(***************************************************************************)
\* C3: after color_beads on an acyclic bead set, every cluster head that is
\* UP_TO_DATE has only input edges whose source is UP_TO_DATE, and every cluster
\* head with an input edge whose source is not UP_TO_DATE is OUT_OF_DATE.
C3_ColoringConvergence ==
    (wres.op = "color" /\ wres.what = "done") =>
        \A h \in Heads(beads) :
            LET stale == \E e \in SketchEdges(beads) :
                            e[2] = h /\ beads[e[1]].freshness # UP_TO_DATE
            IN /\ beads[h].freshness = UP_TO_DATE => ~ stale
               /\ stale => beads[h].freshness = OUT_OF_DATE

\* a chain of three heads behind a superseded bead: staleness went along it
C3_Witness ==
    /\ wres.op = "color" /\ wres.what = "done"
    /\ Heads(beads) = {"a2", "b1", "c1"}
    /\ beads["b1"].inputs = {"a1"} /\ beads["c1"].inputs = {"b1"}
    /\ beads["a1"].freshness = SUPERSEDED
    /\ beads["a2"].freshness = UP_TO_DATE
    /\ beads["b1"].freshness = OUT_OF_DATE
    /\ beads["c1"].freshness = OUT_OF_DATE

\* C11: a bead whose freshness is PHANTOM keeps it over every color_beads pass
\* and every set_freshness call, whatever the value passed, also when the
\* phantom is the head of its cluster.
C11_PhantomSticky ==
    [][\A i \in WebIds : beads[i].freshness = PHANTOM => beads'[i].freshness = PHANTOM]_vars

\* a completed coloring pass over a web whose cluster "a" is headed by a phantom
\* that a loaded bead has as its input
C11_Witness ==
    /\ wres.op = "color" /\ wres.what = "done"
    /\ beads["a2"].state = "phantom" /\ beads["a2"].freshness = PHANTOM
    /\ beads["a1"].state = "real"
    /\ "a2" \in Heads(beads)
    /\ "a2" \in beads["b1"].inputs

\* the nodes reachable from a set of nodes by zero or more edges
RECURSIVE ReachFrom(_, _)
ReachFrom(edges, from) ==
    LET more == from \cup {e[2] : e \in {d \in edges : d[1] \in from}}
    IN IF more = from THEN from ELSE ReachFrom(edges, more)

HasCycle(edges) ==
    \E e \in edges : e[1] \in ReachFrom(edges, {e[2]})

\* the cluster graph: names as nodes, an edge when a bead of one cluster has a
\* bead of the other as its input
ClusterEdges(bs) ==
    {c \in {<<Dummy[e[1]].name, Dummy[e[2]].name>> : e \in SketchEdges(bs)} : c[1] # c[2]}

\* the input edges between cluster heads
HeadEdges(bs) == {e \in SketchEdges(bs) : e[1] \in Heads(bs) /\ e[2] \in Heads(bs)}

\* C12 as claimed: color_beads raises the cycle error for every bead set whose
\* cluster graph contains a cycle.
C12_ClusterCycleRejected ==
    (wres.op = "color" /\ HasCycle(ClusterEdges(beads))) => wres.what = "cycle"

\* C12 amended: color_beads raises the cycle error exactly for the bead sets
\* whose input edges between cluster heads form a cycle; it neither returns a
\* verdict nor changes a freshness then.  A cycle of the cluster graph through
\* a bead that is not a head is colored.
C12_HeadCycleRejected ==
    [][wres'.op = "color" =>
          /\ HasCycle(HeadEdges(beads)) <=> wres'.what = "cycle"
          /\ wres'.what = "cycle" => (beads' = beads /\ ~ wres'.ret)]_vars

\* the heads b1 and c1 are each other's input and the pass ended in the error
C12_Witness ==
    /\ wres.op = "color" /\ wres.what = "cycle"
    /\ {"b1", "c1"} \subseteq Heads(beads)
    /\ beads["b1"].inputs = {"c1"} /\ beads["c1"].inputs = {"b1"}

(***************************************************************************)
(* Properties of the list selectors (SpecSelect)                           *)
(***************************************************************************)
\* the positions of the retrieval order that hold the first bead of a content_id
FirstOccurrences(r) ==
    {i \in 1..Len(r) : \A j \in 1..(i - 1) : r[j].content_id # r[i].content_id}

C13_KeepsFirstOccurrences ==
    (mres.op = "all" /\ mres.what = "list" /\ uniq) =>
        LET r == Concat(boxes, conds, 1)
            keep == FirstOccurrences(r)
            l == mres.list
        IN /\ Len(l) = Cardinality(keep)
           /\ \A k \in 1..Len(l) :
                 l[k] = r[CHOOSE i \in keep : Cardinality({j \in keep : j < i}) = k - 1]
           /\ \A i, j \in 1..Len(l) : i # j => l[i].content_id # l[j].content_id

\* C13: with unique() set, all() returns the retrieval order restricted to the
\* first bead of every content_id, in that order; and a unique() call on a
\* search that has it set leaves the search as it is, so does not change a result.
C13_UniqueFilter ==
    /\ [] C13_KeepsFirstOccurrences
    /\ [][uniq => (uniq' /\ boxes' = boxes /\ conds' = conds)]_vars

\* a bead of the second box was dropped for a bead of the first box
C13_Witness ==
    /\ mres.op = "all" /\ mres.what = "list" /\ uniq
    /\ conds = <<>>
    /\ boxes = <<BoxOf("none", <<M1, M2>>), BoxOf("none", <<M2, M3>>)>>
    /\ mres.list = <<M1, M2, M3>>

\* C14: newer(n) returns the bead at position n of the result ordered ascending
\* by freeze time and older(n) the one at position n ordered descending when
\* 0 <= n < k, k the length of the result; for every other n, negative n
\* included, and for the empty result they raise LookupError (IndexError is one).
C14_OrdinalSelectors ==
    (mres.op \in {"newer", "older"} /\ Raising(boxes) = {}) =>
        LET l == MultiGetBeads(boxes, conds, uniq)
            n == mres.n
            t(b) == IF mres.op = "newer" THEN Instant(freeze_time(b))
                    ELSE 0 - Instant(freeze_time(b))
        IN IF 0 <= n /\ n < Len(l)
           THEN /\ mres.what = "bead"
                /\ \E i \in 1..Len(l) : l[i] = mres.bead
                /\ Cardinality({i \in 1..Len(l) : t(l[i]) < t(mres.bead)}) <= n
                /\ Cardinality({i \in 1..Len(l) : t(l[i]) <= t(mres.bead)}) > n
           ELSE mres.what \in {"LookupError", "IndexError"}

(***************************************************************************)
(* Properties of the compiled conditions (SpecQuery)                       *)
(***************************************************************************)
Reordered(cs) == {[i \in 1..Len(cs) |-> cs[f[i]]] : f \in Perms(1..Len(cs))}

\* a match function accepts exactly what each of its conditions accepts, in
\* whatever order they were appended: for the box, the raw filesystem walk and
\* the WHERE clause of the index
ConjunctiveBox(cs, b) ==
    /\ BoxMatch(cs, b) <=> \A i \in 1..Len(cs) : BoxMatch(<<cs[i]>>, b)
    /\ \A ds \in Reordered(cs) : BoxMatch(ds, b) <=> BoxMatch(cs, b)
    /\ BoxMatch(<<>>, b)

ConjunctiveRawfs(cs, b) ==
    /\ RawfsMatch(cs, b) <=> \A i \in 1..Len(cs) : RawfsMatch(<<cs[i]>>, b)
    /\ \A ds \in Reordered(cs) : RawfsMatch(ds, b) <=> RawfsMatch(cs, b)
    /\ RawfsMatch(<<>>, b)

ConjunctiveSql(cs, b) ==
    /\ SqlWhere(cs, b) <=> \A i \in 1..Len(cs) : SqlWhere(<<cs[i]>>, b)
    /\ \A ds \in Reordered(cs) : SqlWhere(ds, b) <=> SqlWhere(cs, b)
    /\ SqlWhere(<<>>, b)

ByInstant(tag, v, r) ==
    IF tag \in TimeTags THEN CheckCommon(tag, v, r) ELSE SqlCheck(tag, v, r)

\* C16: the index returns the beads ascending by the instant of their freeze
\* time, and a time condition selects a row by comparing instants, also when
\* the freeze_time strings carry different UTC offsets.
C16_TimeByInstant ==
    (lastOp.op = "search" /\ lastOp.ok) =>
        /\ found.index = {RowBead(r) : r \in {x \in index.rows :
                              \A i \in 1..Len(conds) : ByInstant(conds[i][1], conds[i][2], x)}}
        /\ \A seq \in QueryOrder(index, conds) :
              \A i, j \in 1..Len(seq) :
                  i < j => Instant(freeze_time(seq[i])) <= Instant(freeze_time(seq[j]))

(***************************************************************************)
(* Properties of the progress of rebuild and sync (Spec)                   *)
(***************************************************************************)
FailedAmong(d, recs, k) == {i \in 1..k : ~ IsValid(d, recs[i].path)}

\* C17: rebuild() over a directory with N *.zip files succeeds and yields
\* exactly N progress records, each with total = N, processed growing by one
\* per record, error_count counting the files that failed so far and
\* latest_error set exactly for the files that are no valid archive; afterwards
\* every valid archive has an index entry and no invalid file has one.
C17_RebuildProgress ==
    (lastOp.op = "rebuild" /\ lastOp.after = "available") =>
        LET recs == RebuildProgress(index, dir)
            N == Cardinality(GlobZip(dir))
        IN /\ lastOp.ok
           /\ Len(recs) = N
           /\ {recs[k].path : k \in 1..Len(recs)} = GlobZip(dir)
           /\ \A k \in 1..Len(recs) :
                 /\ recs[k].total = N
                 /\ recs[k].processed = k
                 /\ recs[k].error_count = Cardinality(FailedAmong(dir, recs, k))
                 /\ (recs[k].latest_error # "") <=> ~ IsValid(dir, recs[k].path)
           /\ IndexedPaths(index) = ValidZip(dir)

\* C18: when a sync is abandoned after its first k files, the valid archives
\* among those files are committed: the index holds their entries, which a
\* later query returns.
C18_PartialProgressDurable ==
    lastOp.op = "sync_interrupted" =>
        \A p \in {lastOp.p, lastOp.q} :
            IsValid(dir, p) =>
                \E r \in QueryRows(index, <<>>) : r.file_path = p

\* C19: a rebuild of an index whose store cannot be opened or used ends with
\* BoxIndexError: it yields no progress record for the failure and raises no
\* other type of error.
C19_FatalStoreError ==
    (lastOp.op = "rebuild" /\ lastOp.after = "unavailable") =>
        /\ RebuildRaises(index) = "BoxIndexError"
        /\ RebuildProgress(index, dir) = <<>>

(***************************************************************************)
(* Frame of the index operations (Spec)                                    *)
(***************************************************************************)
IndexOps == {"rebuild", "sync", "sync_interrupted", "add_bead", "remove_bead"}

\* C20: a step of rebuild, sync (completed or cut off), add_bead or
\* remove_bead, successful or failed, leaves every archive file of the box
\* directory as it was, so the entries a rebuild derives from the files stay
\* the same; only the index changes.
C20_IndexWritesKeepFiles ==
    [][lastOp'.op \in IndexOps =>
          /\ dir' = dir
          /\ \A order \in Perms(GlobZip(dir)) :
                AddAll({}, dir', order) = AddAll({}, dir, order)]_vars

\* a rebuild that failed after it had unlinked the index, next to a valid
\* archive and a file that is no archive, both still in the directory
C20_Witness ==
    /\ lastOp.op = "rebuild" /\ lastOp.after = "available" /\ ~ lastOp.ok
    /\ index = NoIndex
    /\ ValidZip(dir) # {}
    /\ GlobZip(dir) # ValidZip(dir)

(***************************************************************************)
(* Creation of the index (Spec)                                            *)
(***************************************************************************)
\* C21: creating the index, by a first connection or by the schema creation,
\* succeeds on an absent and on an existing index, any number of times in a
\* row, and leaves one schema and the rows that were there.
C21_CreationIdempotent ==
    [][(lastOp'.op \in {"connect", "create_schema"}) =>
          /\ lastOp'.ok
          /\ index'.state = "ok"
          /\ index'.schema = {SCHEMA_VERSION}
          /\ index'.rows = index.rows]_vars

(***************************************************************************)
(* Resolution of (name, content_id) (Spec)                                 *)
(***************************************************************************)
ContentIds == {X.content_id, Y.content_id}

Backing(d, name, cid) ==
    {p \in Present(d) : IsArchive(d, p) /\ ArchiveBead(d, p).name = name
                                         /\ ArchiveBead(d, p).content_id = cid}

\* C22: resolving a (name, content_id) pair that no archive of the box
\* directory backs raises LookupError, from the index and from the filesystem
\* resolver; neither returns None or a path.
C22_UnknownIsLookupError ==
    \A n \in Names, c \in ContentIds :
        Backing(dir, n, c) = {} =>
            /\ get_file_path(index, n, c) = LookupErrorValue
            /\ rawfs_get_file_path(dir, n, c) = {LookupErrorValue}

(***************************************************************************)
(* Enumeration of a box with junk files (SpecQuery)                        *)
(***************************************************************************)
\* C23: the enumeration of a box raises nothing and returns beads of archives
\* of the directory only; without conditions (all_beads(), search().all()) it
\* returns exactly the beads of the files that are bead archives, whatever
\* other files the directory holds.
C23_JunkTolerance ==
    lastOp.op = "search" =>
        /\ ~ BoxRaises(dir, conds)
        /\ found.box \subseteq {ArchiveBead(dir, p) : p \in {q \in Present(dir) : dir[q].what = "bead"}}
        /\ conds = <<>> =>
              found.box = {ArchiveBead(dir, p) : p \in {q \in Present(dir) : dir[q].what = "bead"}}

\* all_beads() over a directory with a junk file next to a bead archive
C23_Witness ==
    /\ lastOp.op = "search" /\ conds = <<>>
    /\ \E p \in Present(dir) : dir[p] = Junk
    /\ found.box # {}

(***************************************************************************)
(* Source and sink filters (SpecWeb)                                       *)
(***************************************************************************)
BeadsOfClusters(bs, names) == {i \in SketchBeads(bs) : Dummy[i].name \in names}

\* C24: set_sources(names) keeps every bead of exactly the clusters reachable
\* forward from the named clusters on the cluster graph, set_sinks(names) every
\* bead of exactly the clusters that can reach a named cluster, the named
\* clusters included.
C24_FiltersFollowClusterLinks ==
    wres.op \in {"set_sources", "set_sinks"} =>
        \A names \in SUBSET ClusterNames(beads) :
            /\ set_sources(beads, names).what = "done"
            /\ set_sources(beads, names).kept =
                   BeadsOfClusters(beads, ReachFrom(ClusterEdges(beads), names))
            /\ set_sinks(beads, names).what = "done"
            /\ set_sinks(beads, names).kept =
                   BeadsOfClusters(beads, ReachFrom(reverse(ClusterEdges(beads)), names))

(***************************************************************************)
(* Freshness after coloring (SpecWeb)                                      *)
(***************************************************************************)
\* the web of a@t1, a@t2 and b@t2, where b@t2 has a@t1 as its input
StaleLinkWeb ==
    /\ \A i \in {"a1", "a2", "b1"} : beads[i].state = "real"
    /\ beads["c1"].state = "absent"
    /\ beads["b1"].inputs = {"a1"}
    /\ beads["a1"].inputs = {} /\ beads["a2"].inputs = {}

\* C25: after color_beads every loaded bead that is not the head of its
\* cluster is SUPERSEDED and every loaded cluster head is UP_TO_DATE or
\* OUT_OF_DATE; with a@t1, a@t2 and b@t2 referencing a@t1 the result is a@t2
\* UP_TO_DATE, a@t1 SUPERSEDED, b@t2 OUT_OF_DATE.
C25_HeadOnlyFreshness ==
    (wres.op = "color" /\ wres.what = "done") =>
        /\ \A i \in SketchBeads(beads) :
              beads[i].state = "real" =>
                  IF i \in Heads(beads)
                  THEN beads[i].freshness \in {UP_TO_DATE, OUT_OF_DATE}
                  ELSE beads[i].freshness = SUPERSEDED
        /\ StaleLinkWeb =>
              /\ beads["a2"].freshness = UP_TO_DATE
              /\ beads["a1"].freshness = SUPERSEDED
              /\ beads["b1"].freshness = OUT_OF_DATE

C25_Witness ==
    /\ wres.op = "color" /\ wres.what = "done"
    /\ StaleLinkWeb
    /\ beads["b1"].freshness = OUT_OF_DATE

\* C26: a color_beads call that meets no cycle returns true if and only if
\* every cluster head is UP_TO_DATE after it, and the synthetic sink is the
\* last bead of its evaluation order.
C26_SinkVerdict ==
    (wres.op = "color" /\ wres.what # "cycle") =>
        /\ wres.what = "done"
        /\ wres.ret <=> \A h \in Heads(beads) : beads[h].freshness = UP_TO_DATE
        /\ wres.order # <<>> /\ wres.order[Len(wres.order)] = SinkId

(***************************************************************************)
(* Well-formedness of the graphs (SpecWeb)                                 *)
(***************************************************************************)
\* the assertion of Sketch.__attrs_post_init__
EndpointsPresent(sk) == \A e \in sk.edges : e[1] \in sk.beads /\ e[2] \in sk.beads

\* the Sketch of the web as from_beads made it
WebSketch(bs) == [beads |-> SketchBeads(bs), edges |-> SketchEdges(bs)]

\* C27: the graph from_beads builds, its heads_of graph and that graph with
\* the final sink each hold a bead for the source and the destination of every
\* edge, and an input that no loaded bead satisfies has a phantom bead as its
\* source.
C27_EdgeEndpointsPresent ==
    /\ EndpointsPresent(WebSketch(beads))
    /\ EndpointsPresent(heads_of(beads))
    /\ EndpointsPresent(add_final_sink_to(heads_of(beads)))
    /\ \A i \in WebIds : \A j \in beads[i].inputs :
          /\ beads[j].state \in {"real", "phantom"}
          /\ beads[j].state = "phantom" => beads[j].freshness = PHANTOM

\* a colored web in which a loaded cluster head has an input that is not loaded
C27_Witness ==
    /\ wres.op = "color" /\ wres.what = "done"
    /\ \E e \in heads_of(beads).edges :
          beads[e[1]].state = "phantom" /\ beads[e[2]].state = "real"

(***************************************************************************)
(* Contradictory names (SpecQuery)                                         *)
(***************************************************************************)
\* C28: a search whose conditions hold two different BEAD_NAME values returns
\* nothing from the box, the filesystem resolver and the index and touches no
\* storage: the index is neither read nor created; a BEAD_NAME condition given
\* twice with the same value finds what the single condition finds.
C28_ContradictoryNames ==
    [][lastOp'.op = "search" =>
          /\ Cardinality(BeadNames(conds)) > 1 =>
                /\ found'.box = {} /\ found'.rawfs = {} /\ found'.index = {}
                /\ ~ QueryExecutes(index, conds)
                /\ index' = index
          /\ (Len(conds) = 2 /\ conds[1] = conds[2] /\ conds[1][1] = "BEAD_NAME") =>
                /\ found'.box = BoxBeads(dir, <<conds[1]>>)
                /\ found'.rawfs = get_beads(dir, <<conds[1]>>)
                /\ is_available(index) => found'.index = query(index, <<conds[1]>>)]_vars

(***************************************************************************)
(* Closure (SpecFilter)                                                    *)
(***************************************************************************)
ClosedUnder(edges, S) == \A e \in edges : e[1] \in S => e[2] \in S

\* C29: closure returns the least set of refs that holds the roots and, with
\* the source of an edge, its destination: the refs reachable from the roots
\* by zero or more edges, also when the edges form a loop; over the reversed
\* edges these are the roots and the beads from which a root is reachable.
C29_Closure ==
    wres.op = "closure" =>
        LET edges == IF wres.ret THEN reverse(SketchEdges(beads)) ELSE SketchEdges(beads)
        IN /\ wres.roots \subseteq wres.refs
           /\ ClosedUnder(edges, wres.refs)
           /\ \A T \in SUBSET SketchBeads(beads) :
                 (wres.roots \subseteq T /\ ClosedUnder(edges, T)) => wres.refs \subseteq T
           /\ wres.ret =>
                 wres.refs = {n \in SketchBeads(beads) :
                                 ReachFrom(SketchEdges(beads), {n}) \cap wres.roots # {}}

\* the closure of one bead of a loop of three, next to a bead outside the loop
C29_Witness ==
    /\ wres.op = "closure" /\ ~ wres.ret
    /\ beads["b1"].inputs = {"a1"} /\ beads["c1"].inputs = {"b1"} /\ beads["a1"].inputs = {"c1"}
    /\ beads["a2"].state = "real"
    /\ wres.roots = {"b1"}
    /\ wres.refs = {"a1", "b1", "c1"}

(***************************************************************************)
(* first() and all() of the multi-box search (SpecMulti)                   *)
(***************************************************************************)
\* C30: when no box raises during its scan, first() returns the first bead of
\* the list all() returns, with and without the unique filter, and raises
\* LookupError exactly when that list is empty.
C30_FirstAgreesWithAll ==
    (mres.op = "first" /\ Raising(boxes) = {}) =>
        LET all == MultiGetBeads(boxes, conds, uniq)
        IN IF all = <<>>
           THEN mres.what = "LookupError"
           ELSE mres.what = "bead" /\ mres.bead = all[1]

\* first() with the unique filter, answered by the second box, over boxes whose
\* concatenation repeats a content_id
C30_Witness ==
    /\ mres.op = "first" /\ mres.what = "bead" /\ mres.box = 2
    /\ uniq
    /\ Raising(boxes) = {}
    /\ Len(MultiGetBeads(boxes, conds, uniq)) < Len(Concat(boxes, conds, 1))

====
